---- MODULE Spec2Model ----
(***************************************************************************)
(* Model of the Thumbtack auto-responder: the IMAP IDLE watch loop of      *)
(* EmailMonitor (src/email_monitor.py), the lead callback of ThumbtackBot  *)
(* (src/main.py) and the browser sequence it drives                        *)
(* (src/browser_controller.py).                                            *)
(*                                                                         *)
(* The bot is one thread: mpc is the position of EmailMonitor /            *)
(* ThumbtackBot.start_monitoring, hpc the position of the callback while   *)
(* it runs.  The mail server, the clock, the web page and the interrupt    *)
(* signal are the environment and are chosen nondeterministically.         *)
(***************************************************************************)
EXTENDS Integers, Sequences, FiniteSets, TLC

\* ------------------------------------------------------------------ bounds
\* Highest message uid the mail server hands out.
MaxUid == 2
\* Ghost counters (callback invocations, classifications, failed reconnects)
\* saturate at this value.
CountCap == 2
\* The clock stops advancing at this time (seconds).
MaxNow == 7201

\* ------------------------------------------------------- program constants
\* Config.BROWSER_RESTART_INTERVAL, default value, in seconds.
BROWSER_RESTART_INTERVAL == 7200
\* fetch(..., limit=5, reverse=True)
FETCH_LIMIT == 5
\* time.sleep(30) / time.sleep(60) in the except branch of the watch loop.
RECONNECT_DELAY == 30
RECONNECT_FAIL_DELAY == 60

\* ------------------------------------------------------------------ strings
\* A Python str is a sequence of one-character strings.
UpperChars == <<"A","B","C","D","E","F","G","H","I","J","K","L","M",
                "N","O","P","Q","R","S","T","U","V","W","X","Y","Z">>
LowerChars == <<"a","b","c","d","e","f","g","h","i","j","k","l","m",
                "n","o","p","q","r","s","t","u","v","w","x","y","z">>

\* str.lower() on one character: upper-case letters map to their lower-case
\* letter, everything else is unchanged.
LowerChar(c) ==
    IF \E k \in 1..Len(UpperChars) : UpperChars[k] = c
    THEN LowerChars[CHOOSE k \in 1..Len(UpperChars) : UpperChars[k] = c]
    ELSE c

\* str.lower()
Lower(s) == [i \in 1..Len(s) |-> LowerChar(s[i])]

\* Python's `needle in hay` for str: some window of hay equals needle.
StrIn(needle, hay) ==
    \E i \in 0..(Len(hay) - Len(needle)) :
        SubSeq(hay, i + 1, i + Len(needle)) = needle

\* Marker for a missing attribute / a None value: no character sequence equals it.
None == <<"None">>

THUMBTACK_DOMAIN == <<"t","h","u","m","b","t","a","c","k",".","c","o","m">>

\* lead_keywords of is_thumbtack_lead
lead_keywords ==
    << <<"n","e","w"," ","l","e","a","d">>,
       <<"n","e","w"," ","c","u","s","t","o","m","e","r">>,
       <<"n","e","w"," ","r","e","q","u","e","s","t">>,
       <<"s","e","n","t"," ","y","o","u"," ","a"," ","m","e","s","s","a","g","e">> >>

\* is_thumbtack_lead with the sender compared as received (no .lower()).
is_thumbtack_lead_CaseSensitive(msg) ==
    LET sender  == IF msg.from_ # None THEN msg.from_ ELSE <<>>
        subject == IF msg.subject # None /\ msg.subject # <<>>
                   THEN Lower(msg.subject) ELSE <<>>
    IN  IF ~StrIn(THUMBTACK_DOMAIN, sender)
        THEN FALSE
        ELSE \E k \in 1..Len(lead_keywords) : StrIn(lead_keywords[k], subject)

\* EmailMonitor.is_thumbtack_lead, statement by statement.
is_thumbtack_lead(msg) ==
    LET sender  == IF msg.from_ # None THEN Lower(msg.from_) ELSE <<>>
        subject == IF msg.subject # None /\ msg.subject # <<>>
                   THEN Lower(msg.subject) ELSE <<>>
    IN  IF ~StrIn(THUMBTACK_DOMAIN, sender)
        THEN FALSE
        ELSE \E k \in 1..Len(lead_keywords) : StrIn(lead_keywords[k], subject)

\* --------------------------------------------------------------- mail data
\* Sender values (msg.from_) of the messages considered; None stands for a
\* message object without the attribute.
SampleSenders ==
    << <<"L","e","a","d","s","@","T","h","u","m","b","t","a","c","k",".","c","o","m">>,
       <<"b","i","l","l","@","t","h","u","m","b","t","a","c","k",".","c","o","m">>,
       <<"N","O","R","E","P","L","Y","@","T","H","U","M","B","T","A","C","K",".","C","O","M">>,
       <<"b","o","b","@","g","m","a","i","l",".","c","o","m">>,
       <<"x","@","t","h","u","m","b","t","a","c","k",".","c","o">>,
       <<"a","@","t","h","u","m","b","t","a","c","k",".","c","o","m",".","e","v","i","l",".","o","r","g">>,
       <<"x","@","t","h","u","m","b","t","a","c","k","-","c","o","m">>,
       None >>

\* Subject values (msg.subject); None and the empty string included.
SampleSubjects ==
    << <<"Y","o","u"," ","h","a","v","e"," ","a"," ","N","e","w"," ","L","e","a","d","!">>,
       <<"Y","o","u","r"," ","i","n","v","o","i","c","e">>,
       <<"N","E","W"," ","C","U","S","T","O","M","E","R">>,
       <<"r","e","n","e","w"," ","r","e","q","u","e","s","t","s">>,
       <<"B","o","b"," ","S","e","n","t"," ","Y","o","u"," ","A"," ","M","e","s","s","a","g","e">>,
       <<"n","e","w","l","e","a","d"," ","n","e","w"," "," ","l","e","a","d">>,
       <<>>,
       None >>

\* A message kind is a (sender, subject) pair, numbered from 1; 0 is no message.
KindOf(si, ji) == (si - 1) * Len(SampleSubjects) + ji
MailKinds == 1..(Len(SampleSenders) * Len(SampleSubjects))
MailOfKind(k) ==
    [from_   |-> SampleSenders[((k - 1) \div Len(SampleSubjects)) + 1],
     subject |-> SampleSubjects[((k - 1) % Len(SampleSubjects)) + 1]]

\* Kinds the mail server delivers while the bot runs: the lead notification
\* (first sender, first subject) and the invoice mail (second of each).
ArrivalKinds == {KindOf(1, 1), KindOf(2, 2)}

Uids == 1..MaxUid

\* ---------------------------------------------------------------- helpers
SetMin(S) == CHOOSE m \in S : \A x \in S : m <= x

\* The uids of a set in ascending order (the order of an IMAP SEARCH reply).
RECURSIVE UidsAsc(_)
UidsAsc(S) == IF S = {} THEN <<>> ELSE <<SetMin(S)>> \o UidsAsc(S \ {SetMin(S)})

Reverse(s) == [i \in 1..Len(s) |-> s[Len(s) + 1 - i]]

\* s[:n]
Take(s, n) == SubSeq(s, 1, IF Len(s) < n THEN Len(s) ELSE n)

Bump(n) == IF n < CountCap THEN n + 1 ELSE n

VARIABLES
    \* EmailMonitor / ThumbtackBot.start_monitoring
    mpc,            \* position of the watcher thread
    connected,      \* self.mailbox is a logged-in IMAP session
    kind,           \* mail server: uid -> message kind, 0 = not delivered
    seen,           \* mail server: uids carrying the \Seen flag
    batch,          \* uids the running fetch() generator has yet to yield
    cur,            \* msg of the for loop (its uid), 0 outside the loop body
    exitCode,       \* process exit status, -1 while running
    exitCause,      \* why the watch loop / process ended
    loopEntered,    \* the `while True` of EmailMonitor.start_monitoring was reached
    \* ThumbtackBot / ThumbtackBrowser
    hpc,            \* position inside the callback, "idle" when none runs
    now,            \* wall clock, seconds
    last_browser_restart,
    driver,         \* self.driver: "none" or "live"
    is_logged_in,   \* ThumbtackBrowser.is_logged_in
    \* history (ghost) variables
    cbCount,        \* uid -> number of callback invocations
    clsCount,       \* uid -> number of wake cycles that classified it
    fetchedNow,     \* uids yielded by fetch() in the current wake cycle
    cycleSeen,      \* value of seen when the current wake cycle began
    activeHandlers, \* callbacks entered and not yet left
    recov,          \* steps taken since the last transport error was caught
    slept,          \* seconds slept since the last (re)connect attempt
    failedReconnects, \* consecutive failed reconnect attempts
    lead,           \* what the running / last callback did
    obs,            \* what start-up found, how the last wait returned, open sessions
    probe           \* the call under study in the single-function specifications

vars == <<mpc, connected, kind, seen, batch, cur, exitCode, exitCause, loopEntered,
          hpc, now, last_browser_restart, driver, is_logged_in,
          cbCount, clsCount, fetchedNow, cycleSeen, activeHandlers,
          recov, slept, failedReconnects, lead, obs, probe>>

auxVars     == <<obs, probe>>
mailVars    == <<kind, seen>>
exitVars    == <<exitCode, exitCause, loopEntered>>
browserVars == <<now, last_browser_restart, driver, is_logged_in>>
recovVars   == <<recov, slept, failedReconnects>>
countVars   == <<cbCount, clsCount>>
cycleVars   == <<fetchedNow, cycleSeen>>

\* The ghost record of a callback that has not started.
NoLead ==
    [uid |-> 0, site |-> "none", start |-> "none", elapsed |-> 0, restarts |-> 0, restartAfterNav |-> FALSE,
     checks |-> 0, checkResult |-> "none", delays |-> 0, navs |-> 0,
     passes |-> 0, pass1 |-> "none", pass2 |-> "none",
     refreshes |-> 0, refreshRaised |-> FALSE,
     inputTried |-> 0, inputs |-> 0, typed |-> 0,
     sent |-> 0, sendPage |-> {}, clicked |-> 0, enter |-> FALSE,
     sendRaised |-> FALSE, outcome |-> "none"]

\* Nothing observed yet.
NoObs == [creds |-> "unknown", browser |-> "unknown", login |-> "unknown",
          wait |-> "none", sessions |-> 0]

\* obs after a successful ThumbtackBot.initialize.
BootedObs == [NoObs EXCEPT !.creds = "ok", !.browser = "ok", !.login = "ok",
                           !.sessions = 1]

\* probe outside the single-function specifications.
NoProbe == [op |-> "none"]

\* State after ThumbtackBot.__init__ (main.py:60-64), as main() is about to
\* call initialize(): no browser, no mailbox connection.
Init ==
    /\ mpc = "init_validate"
    /\ obs = NoObs
    /\ probe = NoProbe
    /\ connected = FALSE
    /\ kind = [u \in Uids |-> 0]
    /\ seen = {}
    /\ batch = <<>>
    /\ cur = 0
    /\ exitCode = -1
    /\ exitCause = "none"
    /\ loopEntered = FALSE
    /\ hpc = "idle"
    /\ now = 0
    /\ last_browser_restart = 0
    /\ driver = "none"
    /\ is_logged_in = FALSE
    /\ cbCount = [u \in Uids |-> 0]
    /\ clsCount = [u \in Uids |-> 0]
    /\ fetchedNow = {}
    /\ cycleSeen = {}
    /\ activeHandlers = 0
    /\ recov = <<>>
    /\ slept = 0
    /\ failedReconnects = 0
    /\ lead = NoLead

\* ------------------------------------------------------------ environment
Delivered == {u \in DOMAIN kind : kind[u] # 0}
Unread    == {u \in Delivered : u \notin seen}
Msg(u)    == MailOfKind(kind[u])

Running == exitCode = -1

\* The mail server delivers a new message (unread, next uid).
Arrive ==
    /\ Running
    /\ Cardinality(Delivered) < MaxUid
    /\ \E k \in ArrivalKinds :
         kind' = [kind EXCEPT ![Cardinality(Delivered) + 1] = k]
    /\ UNCHANGED <<auxVars, mpc, connected, seen, batch, cur, exitVars, hpc, browserVars,
                   countVars, cycleVars, activeHandlers, recovVars, lead>>

\* Points the wall clock can reach relative to the last restart: just below,
\* at and just above the restart interval.
ElapsedPoints ==
    {BROWSER_RESTART_INTERVAL - 1, BROWSER_RESTART_INTERVAL, BROWSER_RESTART_INTERVAL + 1}

\* Time passes while the watcher blocks in IDLE.
Tick ==
    /\ mpc = "idle_wait"
    /\ \E e \in ElapsedPoints :
         /\ last_browser_restart + e > now
         /\ last_browser_restart + e <= MaxNow
         /\ now' = last_browser_restart + e
    /\ UNCHANGED <<auxVars, mpc, connected, mailVars, batch, cur, exitVars, hpc,
                   last_browser_restart, driver, is_logged_in,
                   countVars, cycleVars, activeHandlers, recovVars, lead>>

\* ------------------------------------------------- ThumbtackBot.initialize
\* Outcomes of one check_login_status call (browser_controller.py:123-159):
\* driver.get raises (157-159), the URL is a login page (137-140), the inbox
\* element appears (143-151), or the 10 s wait for it times out (152-155).
LoginCheckResults == {"get_raises", "login_page", "inbox", "no_inbox"}

\* is_logged_in after a check with result r: the outer except leaves it alone.
LoggedInAfter(r) ==
    CASE r = "get_raises" -> is_logged_in
      [] r = "inbox"      -> TRUE
      [] OTHER            -> FALSE

\* Initialisation going on after Config.validate() raised.
InitValidate_Continue ==
    /\ mpc = "init_validate"
    /\ \E creds \in {"ok", "missing"} :
         /\ obs' = [obs EXCEPT !.creds = creds]
         /\ mpc' = "init_browser"
    /\ UNCHANGED <<probe, connected, mailVars, batch, cur, exitVars, hpc,
                   browserVars, countVars, cycleVars, activeHandlers,
                   recovVars, lead>>

\* main.py:72-79 with config.py:49-63: Config.validate() raises ValueError when
\* GMAIL_EMAIL or GMAIL_APP_PASSWORD is empty, and that is sys.exit(1).
InitValidate ==
    /\ mpc = "init_validate"
    /\ \E creds \in {"ok", "missing"} :
         /\ obs' = [obs EXCEPT !.creds = creds]
         /\ IF creds = "ok"
            THEN /\ mpc' = "init_browser"
                 /\ UNCHANGED exitVars
            ELSE /\ mpc' = "exited"
                 /\ exitCode' = 1
                 /\ exitCause' = "config_error"
                 /\ UNCHANGED loopEntered
    /\ UNCHANGED <<probe, connected, mailVars, batch, cur, hpc, browserVars,
                   countVars, cycleVars, activeHandlers, recovVars, lead>>

\* main.py:82-87 with browser_controller.py:81-103: the first start().  False
\* (Driver() raised, or set_window_size raised on the new handle) is
\* sys.exit(1).
InitBrowserStart ==
    /\ mpc = "init_browser"
    /\ \E r \in {"ok", "no_driver", "resize_failed"} :
         /\ driver' = IF r = "no_driver" THEN "none" ELSE "live"
         /\ obs' = [obs EXCEPT !.browser = IF r = "ok" THEN "ok" ELSE "failed",
                               !.sessions = IF r = "no_driver" THEN @ ELSE @ + 1]
         /\ IF r = "ok"
            THEN /\ mpc' = "init_login"
                 /\ UNCHANGED exitVars
            ELSE /\ mpc' = "exited"
                 /\ exitCode' = 1
                 /\ exitCause' = "browser_start_failed"
                 /\ UNCHANGED loopEntered
    /\ UNCHANGED <<probe, connected, mailVars, batch, cur, hpc, now,
                   last_browser_restart, is_logged_in, countVars, cycleVars,
                   activeHandlers, recovVars, lead>>

\* main.py:90-100: the first check_login_status(); not logged in asks for a
\* manual login.
InitLoginCheck ==
    /\ mpc = "init_login"
    /\ \E r \in LoginCheckResults :
         /\ is_logged_in' = LoggedInAfter(r)
         /\ IF r = "inbox"
            THEN /\ mpc' = "bot_connect"
                 /\ obs' = [obs EXCEPT !.login = "ok"]
            ELSE /\ mpc' = "init_login_recheck"
                 /\ UNCHANGED obs
    /\ UNCHANGED <<probe, connected, mailVars, batch, cur, exitVars, hpc, now,
                   last_browser_restart, driver, countVars, cycleVars,
                   activeHandlers, recovVars, lead>>

\* main.py:101-107: time.sleep(300), then the second check_login_status();
\* still not logged in is sys.exit(1).
InitLoginRecheck ==
    /\ mpc = "init_login_recheck"
    /\ \E r \in LoginCheckResults :
         /\ is_logged_in' = LoggedInAfter(r)
         /\ obs' = [obs EXCEPT !.login = IF r = "inbox" THEN "ok" ELSE "failed"]
         /\ IF r = "inbox"
            THEN /\ mpc' = "bot_connect"
                 /\ UNCHANGED exitVars
            ELSE /\ mpc' = "exited"
                 /\ exitCode' = 1
                 /\ exitCause' = "login_failed"
                 /\ UNCHANGED loopEntered
    /\ UNCHANGED <<probe, connected, mailVars, batch, cur, hpc, now,
                   last_browser_restart, driver, countVars, cycleVars,
                   activeHandlers, recovVars, lead>>

\* Positions of main() before the try of ThumbtackBot.start_monitoring
\* (main.py:191-201, 66-109, 145-164).
StartupStates ==
    {"init_validate", "init_browser", "init_login", "init_login_recheck",
     "bot_connect"}

\* KeyboardInterrupt before main.py:166: nothing catches it, the interpreter
\* prints the traceback and the process ends with the SIGINT status.
InterruptAtStartup ==
    /\ mpc \in StartupStates
    /\ mpc' = "exited"
    /\ exitCode' = 130
    /\ exitCause' = "interrupt_unhandled"
    /\ UNCHANGED <<auxVars, connected, mailVars, batch, cur, loopEntered, hpc,
                   browserVars, countVars, cycleVars, activeHandlers,
                   recovVars, lead>>

\* ------------------------------------------------- ThumbtackBot.start_monitoring
\* main.py:153-155: the first connect; its failure is sys.exit(1).
BotConnect ==
    /\ mpc = "bot_connect"
    /\ \E ok \in BOOLEAN :
         IF ok
         THEN /\ connected' = TRUE
              /\ mpc' = "monitor_start"
              /\ UNCHANGED exitVars
         ELSE /\ connected' = FALSE
              /\ mpc' = "exited"
              /\ exitCode' = 1
              /\ exitCause' = "connect_failed"
              /\ UNCHANGED loopEntered
    /\ UNCHANGED <<auxVars, mailVars, batch, cur, hpc, browserVars, countVars, cycleVars,
                   activeHandlers, recovVars, lead>>

\* email_monitor.py:76-84: self.mailbox is set, so no connect here; the folder
\* is selected outside the loop's try, so an error leaves start_monitoring and
\* reaches main.py:172-175 (shutdown, sys.exit(1)).
MonitorStart ==
    /\ mpc = "monitor_start"
    /\ \E ok \in BOOLEAN :
         IF ok
         THEN /\ mpc' = "idle_wait"
              /\ loopEntered' = TRUE
              /\ UNCHANGED <<exitCode, exitCause>>
         ELSE /\ mpc' = "shutdown"
              /\ exitCause' = "folder_failed"
              /\ UNCHANGED <<exitCode, loopEntered>>
    /\ UNCHANGED <<auxVars, connected, mailVars, batch, cur, hpc, browserVars, countVars,
                   cycleVars, activeHandlers, recovVars, lead>>

\* email_monitor.py:127-129: `except Exception` of the watch loop catches a
\* transport error; the running fetch generator is dropped.
CatchTransportError ==
    /\ mpc' = "except_sleep30"
    /\ batch' = <<>>
    /\ cur' = 0
    /\ recov' = <<>>
    /\ fetchedNow' = {}
    /\ cycleSeen' = {}

\* The wait followed by a fetch on every wake, timeout expiry included.
IdleWait_FetchOnTimeout ==
    /\ mpc = "idle_wait"
    /\ \E r \in {"responses", "timeout", "error"} :
         /\ ~connected => r = "error"
         /\ IF r = "error"
            THEN CatchTransportError
            ELSE /\ mpc' = "fetch_search"
                 /\ fetchedNow' = {}
                 /\ cycleSeen' = seen
                 /\ UNCHANGED <<batch, cur, recov>>
         /\ obs' = [obs EXCEPT !.wait = IF r = "timeout" THEN "timeout" ELSE "none"]
    /\ UNCHANGED <<probe, connected, mailVars, exitVars, hpc, browserVars, countVars,
                   activeHandlers, slept, failedReconnects, lead>>

\* email_monitor.py:90: idle.wait.  On a mailbox that is not logged in the
\* command fails; otherwise it returns responses, returns nothing (timeout)
\* or fails.
IdleWait ==
    /\ mpc = "idle_wait"
    /\ \E r \in {"responses", "timeout", "error"} :
         /\ ~connected => r = "error"
         /\ CASE r = "responses" ->
                   /\ mpc' = "fetch_search"
                   /\ fetchedNow' = {}
                   /\ cycleSeen' = seen
                   /\ UNCHANGED <<batch, cur, recov>>
              [] r = "timeout" ->
                   /\ mpc' = "idle_timeout"
                   /\ fetchedNow' = {}
                   /\ cycleSeen' = seen
                   /\ UNCHANGED <<batch, cur, recov>>
              [] r = "error" -> CatchTransportError
         /\ obs' = [obs EXCEPT !.wait = IF r = "timeout" THEN "timeout" ELSE "none"]
    /\ UNCHANGED <<probe, connected, mailVars, exitVars, hpc, browserVars, countVars,
                   activeHandlers, slept, failedReconnects, lead>>

\* email_monitor.py:120-122, 87: the else branch of `if responses` only logs;
\* the loop goes round to the next wait.
IdleTimeout ==
    /\ mpc = "idle_timeout"
    /\ mpc' = "idle_wait"
    /\ obs' = [obs EXCEPT !.wait = "none"]
    /\ fetchedNow' = {}
    /\ cycleSeen' = {}
    /\ UNCHANGED <<probe, connected, mailVars, batch, cur, exitVars, hpc,
                   browserVars, countVars, activeHandlers, recovVars, lead>>

\* email_monitor.py:96: fetch(AND(seen=False), mark_seen=False, limit=5,
\* reverse=True) searches the unread uids, newest first, and keeps the first 5.
FetchUids == Take(Reverse(UidsAsc(Unread)), FETCH_LIMIT)

FetchSearch ==
    /\ mpc = "fetch_search"
    /\ \E ok \in BOOLEAN :
         IF ok
         THEN /\ batch' = FetchUids
              /\ mpc' = "fetch_next"
              /\ UNCHANGED <<cur, recov, cycleVars>>
         ELSE CatchTransportError
    /\ UNCHANGED <<auxVars, connected, mailVars, exitVars, hpc, browserVars, countVars,
                   activeHandlers, slept, failedReconnects, lead>>

\* email_monitor.py:96: the for loop asks the generator for the next message
\* (one FETCH per message, mark_seen=False leaves the flag alone).
FetchNext ==
    /\ mpc = "fetch_next"
    /\ IF batch = <<>>
       THEN /\ mpc' = "loop_end"
            /\ cur' = 0
            /\ UNCHANGED <<batch, recov, cycleVars>>
       ELSE \E ok \in BOOLEAN :
              IF ok
              THEN /\ cur' = Head(batch)
                   /\ batch' = Tail(batch)
                   /\ fetchedNow' = fetchedNow \cup {Head(batch)}
                   /\ mpc' = "classify"
                   /\ UNCHANGED <<recov, cycleSeen>>
              ELSE CatchTransportError
    /\ UNCHANGED <<auxVars, connected, mailVars, exitVars, hpc, browserVars, countVars,
                   activeHandlers, slept, failedReconnects, lead>>

\* email_monitor.py:97-98, 117-118: classify; a non-lead is only logged.
Classify ==
    /\ mpc = "classify"
    /\ clsCount' = [clsCount EXCEPT ![cur] = Bump(@)]
    /\ mpc' = IF is_thumbtack_lead(Msg(cur)) THEN "callback" ELSE "fetch_next"
    /\ UNCHANGED <<auxVars, connected, mailVars, batch, cur, exitVars, hpc, browserVars,
                   cbCount, cycleVars, activeHandlers, recovVars, lead>>

\* The callback started without waiting for it (as on a worker thread): the
\* loop body goes on at once.
CallbackInvoke_Async ==
    /\ mpc = "callback"
    /\ mpc' = "flag"
    /\ hpc' = "check_restart"
    /\ cbCount' = [cbCount EXCEPT ![cur] = Bump(@)]
    /\ activeHandlers' = activeHandlers + 1
    /\ lead' = [NoLead EXCEPT !.uid = cur, !.outcome = "running"]
    /\ UNCHANGED <<auxVars, connected, mailVars, batch, cur, exitVars, browserVars,
                   clsCount, cycleVars, recovVars>>

\* email_monitor.py:109-111: the callback is entered; the watcher is inside
\* the call until it returns.
CallbackInvoke ==
    /\ mpc = "callback"
    /\ mpc' = "in_callback"
    /\ hpc' = "check_restart"
    /\ cbCount' = [cbCount EXCEPT ![cur] = Bump(@)]
    /\ activeHandlers' = activeHandlers + 1
    /\ lead' = [NoLead EXCEPT !.uid = cur, !.outcome = "running"]
    /\ UNCHANGED <<auxVars, connected, mailVars, batch, cur, exitVars, browserVars,
                   clsCount, cycleVars, recovVars>>

\* The callback's exception not caught at line 112: it reaches the
\* `except Exception` of the loop and starts a reconnect.
CallbackRaises_Uncaught ==
    /\ mpc = "in_callback"
    /\ hpc = "check_restart"
    /\ CatchTransportError
    /\ hpc' = "idle"
    /\ activeHandlers' = activeHandlers - 1
    /\ lead' = NoLead
    /\ UNCHANGED <<auxVars, connected, mailVars, exitVars, browserVars, countVars,
                   slept, failedReconnects>>

\* email_monitor.py:112-113: an exception that leaves the callable (raised
\* before ThumbtackBot.handle_new_lead enters its own try) is caught and
\* logged; the loop body goes on to line 116.
CallbackRaises ==
    /\ mpc = "in_callback"
    /\ hpc = "check_restart"
    /\ mpc' = "flag"
    /\ hpc' = "idle"
    /\ activeHandlers' = activeHandlers - 1
    /\ lead' = NoLead
    /\ UNCHANGED <<auxVars, connected, mailVars, batch, cur, exitVars, browserVars,
                   countVars, cycleVars, recovVars>>

\* The callback returns to email_monitor.py:111.
CallbackReturn ==
    /\ mpc = "in_callback"
    /\ hpc = "returned"
    /\ mpc' = "flag"
    /\ hpc' = "idle"
    /\ activeHandlers' = activeHandlers - 1
    /\ lead' = NoLead
    /\ UNCHANGED <<auxVars, connected, mailVars, batch, cur, exitVars, browserVars,
                   countVars, cycleVars, recovVars>>

\* email_monitor.py:116: mark the lead as read.
Flag ==
    /\ mpc = "flag"
    /\ \E ok \in BOOLEAN :
         IF ok
         THEN /\ seen' = seen \cup {cur}
              /\ mpc' = "fetch_next"
              /\ UNCHANGED <<batch, cur, recov, cycleVars>>
         ELSE /\ CatchTransportError
              /\ UNCHANGED seen
    /\ UNCHANGED <<auxVars, connected, kind, exitVars, hpc, browserVars, countVars,
                   activeHandlers, slept, failedReconnects, lead>>

\* email_monitor.py:87: the end of one pass of `while True`.
LoopEnd ==
    /\ mpc = "loop_end"
    /\ mpc' = "idle_wait"
    /\ fetchedNow' = {}
    /\ cycleSeen' = {}
    /\ UNCHANGED <<auxVars, connected, mailVars, batch, cur, exitVars, hpc, browserVars,
                   countVars, activeHandlers, recovVars, lead>>

\* email_monitor.py:130: time.sleep(30)
ExceptSleep30 ==
    /\ mpc = "except_sleep30"
    /\ mpc' = "except_disconnect"
    /\ slept' = slept + RECONNECT_DELAY
    /\ recov' = Append(recov, "sleep30")
    /\ UNCHANGED <<auxVars, connected, mailVars, batch, cur, exitVars, hpc, browserVars,
                   countVars, cycleVars, activeHandlers, failedReconnects, lead>>

\* email_monitor.py:133, 41-48: disconnect; a failing logout is only logged.
ExceptDisconnect ==
    /\ mpc = "except_disconnect"
    /\ mpc' = "except_connect"
    /\ connected' = FALSE
    /\ recov' = Append(recov, "disconnect")
    /\ UNCHANGED <<auxVars, mailVars, batch, cur, exitVars, hpc, browserVars, countVars,
                   cycleVars, activeHandlers, slept, failedReconnects, lead>>

\* The reconnect attempt giving up on failure, as line 78 does for the
\* first connect: the error leaves the loop and reaches main.py:172.
ExceptConnect_GiveUp ==
    /\ mpc = "except_connect"
    /\ \E ok \in BOOLEAN :
         IF ok
         THEN /\ connected' = TRUE
              /\ mpc' = "idle_wait"
              /\ failedReconnects' = 0
              /\ recov' = <<>>
              /\ UNCHANGED exitVars
         ELSE /\ connected' = FALSE
              /\ mpc' = "shutdown"
              /\ failedReconnects' = Bump(failedReconnects)
              /\ recov' = Append(recov, "connect_failed")
              /\ exitCause' = "reconnect_failed"
              /\ UNCHANGED <<exitCode, loopEntered>>
    /\ slept' = 0
    /\ UNCHANGED <<auxVars, mailVars, batch, cur, hpc, browserVars, countVars,
                   cycleVars, activeHandlers, lead>>

\* email_monitor.py:134-135, 30-39: the reconnect attempt.
ExceptConnect ==
    /\ mpc = "except_connect"
    /\ \E ok \in BOOLEAN :
         IF ok
         THEN /\ connected' = TRUE
              /\ mpc' = "idle_wait"
              /\ failedReconnects' = 0
              /\ recov' = <<>>
         ELSE /\ connected' = FALSE
              /\ mpc' = "except_sleep60"
              /\ failedReconnects' = Bump(failedReconnects)
              /\ recov' = Append(recov, "connect_failed")
    /\ slept' = 0
    /\ UNCHANGED <<auxVars, mailVars, batch, cur, exitVars, hpc, browserVars, countVars,
                   cycleVars, activeHandlers, lead>>

\* The 60 s sleep followed at once by another connect attempt.
ExceptSleep60_RetryConnect ==
    /\ mpc = "except_sleep60"
    /\ mpc' = "except_connect"
    /\ slept' = slept + RECONNECT_FAIL_DELAY
    /\ recov' = <<>>
    /\ UNCHANGED <<auxVars, connected, mailVars, batch, cur, exitVars, hpc, browserVars,
                   countVars, cycleVars, activeHandlers, failedReconnects, lead>>

\* email_monitor.py:136: time.sleep(60), then back to the top of the loop.
ExceptSleep60 ==
    /\ mpc = "except_sleep60"
    /\ mpc' = "idle_wait"
    /\ slept' = slept + RECONNECT_FAIL_DELAY
    /\ recov' = <<>>
    /\ UNCHANGED <<auxVars, connected, mailVars, batch, cur, exitVars, hpc, browserVars,
                   countVars, cycleVars, activeHandlers, failedReconnects, lead>>

\* Positions inside the try of the watch loop (email_monitor.py:88-122).
TryStates ==
    {"idle_wait", "fetch_search", "fetch_next", "classify", "callback",
     "in_callback", "flag", "loop_end", "idle_timeout"}

\* Positions inside `except Exception` of the watch loop (127-136).
ExceptStates ==
    {"except_sleep30", "except_disconnect", "except_connect", "except_sleep60"}

LoopStates == TryStates \cup ExceptStates

\* KeyboardInterrupt inside the try, the callback included (neither
\* `except Exception` catches it): email_monitor.py:124-126, break.
InterruptInTry ==
    /\ mpc \in TryStates
    /\ mpc' = "break_disconnect"
    /\ exitCause' = "interrupt"
    /\ batch' = <<>>
    /\ cur' = 0
    /\ hpc' = "idle"
    /\ activeHandlers' = IF hpc = "idle" THEN activeHandlers ELSE activeHandlers - 1
    /\ lead' = NoLead
    /\ obs' = [obs EXCEPT !.wait = "none"]
    /\ UNCHANGED <<probe, connected, mailVars, exitCode, loopEntered, browserVars,
                   countVars, cycleVars, recovVars>>

\* KeyboardInterrupt inside the except branch or at email_monitor.py:76-84
\* leaves EmailMonitor.start_monitoring and is caught at main.py:169-171.
InterruptOutsideTry ==
    /\ mpc \in ExceptStates \cup {"monitor_start"}
    /\ mpc' = "shutdown"
    /\ exitCause' = "interrupt"
    /\ batch' = <<>>
    /\ cur' = 0
    /\ UNCHANGED <<auxVars, connected, mailVars, exitCode, loopEntered, hpc, browserVars,
                   countVars, cycleVars, activeHandlers, recovVars, lead>>

\* email_monitor.py:138: disconnect after the loop; start_monitoring returns,
\* ThumbtackBot.start_monitoring and main return.
BreakDisconnect ==
    /\ mpc = "break_disconnect"
    /\ mpc' = "exited"
    /\ connected' = FALSE
    /\ exitCode' = 0
    /\ UNCHANGED <<auxVars, mailVars, batch, cur, exitCause, loopEntered, hpc, browserVars,
                   countVars, cycleVars, activeHandlers, recovVars, lead>>

\* main.py:177-184 ThumbtackBot.shutdown: the mailbox connection is released
\* first.
ShutdownDisconnect ==
    /\ mpc = "shutdown"
    /\ mpc' = "shutdown_browser"
    /\ connected' = FALSE
    /\ UNCHANGED <<auxVars, mailVars, batch, cur, exitVars, hpc, browserVars,
                   countVars, cycleVars, activeHandlers, recovVars, lead>>

\* main.py:185-188: browser.stop(), then the return of main.py:171 or the
\* sys.exit(1) of main.py:175.
ShutdownBrowserStop ==
    /\ mpc = "shutdown_browser"
    /\ mpc' = "exited"
    /\ driver' = "none"
    /\ obs' = [obs EXCEPT !.sessions = IF driver = "none" THEN @ ELSE @ - 1]
    /\ exitCode' = IF exitCause = "interrupt" THEN 0 ELSE 1
    /\ UNCHANGED <<probe, connected, mailVars, batch, cur, exitCause,
                   loopEntered, hpc, now, last_browser_restart, is_logged_in,
                   countVars, cycleVars, activeHandlers, recovVars, lead>>

\* ------------------------------------------------------- ThumbtackBrowser
\* selectors of find_unread_conversation
selectors ==
    <<"[data-test='unread-conversation']", ".unread", "[class*='unread']",
      ".conversation.unread", "[data-unread='true']">>

\* input_selectors of send_message
input_selectors ==
    <<"textarea[data-test='message-input']", "textarea[placeholder*='message']",
      "textarea[placeholder*='Message']", "textarea",
      "input[type='text'][data-test='message']">>

Range(f) == {f[i] : i \in DOMAIN f}

\* The site as one lead's handling meets it: the session is logged in ("in")
\* or not ("out").  Logged out, the inbox URL leads to the login page, where
\* no candidate of any chain matches an element.
SiteStates == {"in", "out"}

PagesOf(chain, site) ==
    IF site = "out" THEN {{}} ELSE SUBSET Range(chain)

\* What check_login_status can find on such a site (driver.get may raise and
\* the 10 s wait may time out on either).
LoginResultsOn(site) ==
    IF site = "out" THEN {"get_raises", "login_page", "no_inbox"}
    ELSE {"get_raises", "inbox", "no_inbox"}

\* The for loop over a selector chain: the index of the first candidate whose
\* wait finds an element on the page, 0 when every wait times out.
RECURSIVE LocateFrom(_, _, _)
LocateFrom(chain, page, i) ==
    IF i > Len(chain) THEN 0
    ELSE IF chain[i] \in page THEN i
    ELSE LocateFrom(chain, page, i + 1)

Locate(chain, page) == LocateFrom(chain, page, 1)

\* find_unread_conversation (browser_controller.py:167-210): TRUE when a
\* candidate is found and the scroll and click on it succeed; any exception
\* is caught and gives FALSE.
find_unread_conversation(page, clickOk) ==
    Locate(selectors, page) # 0 /\ clickOk

\* What every step of the callback leaves alone.
watcherFrame ==
    UNCHANGED <<auxVars, mpc, connected, mailVars, batch, cur, exitVars, countVars,
                cycleVars, activeHandlers, recovVars>>

\* What a step of restart() leaves alone: as above, but it opens or closes a
\* browser session.
restartFrame ==
    UNCHANGED <<probe, mpc, connected, mailVars, batch, cur, exitVars, countVars,
                cycleVars, activeHandlers, recovVars>>

\* main.py:140-141: an exception inside the try of ThumbtackBot.handle_new_lead
\* is logged and the callback returns.
ExceptionCaught(l) ==
    /\ hpc' = "returned"
    /\ lead' = [l EXCEPT !.outcome = "exception"]

\* The restart test with >= in place of >.
RestartDue_AtOrAbove == now - last_browser_restart >= BROWSER_RESTART_INTERVAL

\* main.py:127: the scheduled-restart test at lead arrival.
RestartDue == now - last_browser_restart > BROWSER_RESTART_INTERVAL

H_CheckRestart ==
    /\ hpc = "check_restart"
    /\ hpc' = IF RestartDue THEN "restart_stop" ELSE "reaction_delay"
    /\ \E site \in IF RestartDue THEN {"none"} ELSE SiteStates :
         lead' = [lead EXCEPT !.elapsed = now - last_browser_restart,
                              !.site = site]
    /\ watcherFrame
    /\ UNCHANGED browserVars

\* stop() without its finally clause: a quit() that raises leaves the handle
\* in place.
H_RestartStop_NoFinally ==
    /\ hpc = "restart_stop"
    /\ hpc' = "restart_start"
    /\ \E quitOk \in BOOLEAN :
         LET released == driver # "none" /\ quitOk
         IN  /\ driver' = IF quitOk THEN "none" ELSE driver
             /\ obs' = [obs EXCEPT !.sessions = IF released THEN @ - 1 ELSE @]
    /\ lead' = [lead EXCEPT !.restarts = @ + 1,
                            !.restartAfterNav = (lead.navs > 0)]
    /\ restartFrame
    /\ UNCHANGED <<now, last_browser_restart, is_logged_in>>

\* main.py:129 -> browser_controller.py:107-109, 112-121: restart() begins
\* with stop().  With a handle, quit() is called and the finally clause clears
\* the handle whether or not quit() raised; then restart() sleeps 3 s.
\* obs.sessions counts the sessions opened by Driver() whose handle was not
\* yet given to stop().
H_RestartStop ==
    /\ hpc = "restart_stop"
    /\ hpc' = "restart_start"
    /\ \E quitOk \in BOOLEAN :
         LET released == driver # "none"
         IN  /\ driver' = "none"
             /\ obs' = [obs EXCEPT !.sessions = IF released THEN @ - 1 ELSE @]
    /\ lead' = [lead EXCEPT !.restarts = @ + 1,
                            !.restartAfterNav = (lead.navs > 0)]
    /\ restartFrame
    /\ UNCHANGED <<now, last_browser_restart, is_logged_in>>

\* The restart treating a failed start as initialize() does: sys.exit(1).
H_RestartStart_Fatal ==
    /\ hpc = "restart_start"
    /\ \E r \in {"ok", "no_driver", "resize_failed"}, site \in SiteStates :
         /\ driver' = IF r = "no_driver" THEN "none" ELSE "live"
         /\ obs' = [obs EXCEPT !.sessions = IF r = "no_driver" THEN @ ELSE @ + 1]
         /\ lead' = [lead EXCEPT !.start = r, !.site = site]
         /\ IF r = "ok"
            THEN /\ hpc' = "login_check"
                 /\ UNCHANGED <<mpc, exitVars>>
            ELSE /\ hpc' = "returned"
                 /\ mpc' = "exited"
                 /\ exitCode' = 1
                 /\ exitCause' = "browser_start_failed"
                 /\ UNCHANGED loopEntered
    /\ last_browser_restart' = now
    /\ UNCHANGED <<probe, connected, mailVars, batch, cur, countVars,
                   cycleVars, activeHandlers, recovVars, now, is_logged_in>>

\* browser_controller.py:110, 81-103: start().  Driver() may raise (no handle)
\* or set_window_size may raise after the handle was stored; both are caught
\* and restart()'s result is ignored.  main.py:130 then resets the timestamp.
H_RestartStart ==
    /\ hpc = "restart_start"
    /\ hpc' = "login_check"
    /\ \E r \in {"ok", "no_driver", "resize_failed"}, site \in SiteStates :
         /\ driver' = IF r = "no_driver" THEN "none" ELSE "live"
         /\ obs' = [obs EXCEPT !.sessions = IF r = "no_driver" THEN @ ELSE @ + 1]
         /\ lead' = [lead EXCEPT !.start = r, !.site = site]
    /\ last_browser_restart' = now
    /\ restartFrame
    /\ UNCHANGED <<now, is_logged_in>>

\* The login re-check with its result ignored by the caller.
H_LoginCheck_Ignored ==
    /\ hpc = "login_check"
    /\ \E r \in {"get_raises", "login_page", "inbox", "no_inbox"} :
         /\ driver = "none" => r = "get_raises"
         /\ r \in LoginResultsOn(lead.site)
         /\ is_logged_in' = CASE r = "get_raises" -> is_logged_in
                              [] r = "inbox"      -> TRUE
                              [] OTHER            -> FALSE
         /\ hpc' = "reaction_delay"
         /\ lead' = [lead EXCEPT
                       !.checks = @ + 1,
                       !.checkResult = IF r = "inbox" THEN "logged_in" ELSE "not_logged_in",
                       !.navs = IF driver = "live" THEN @ + 1 ELSE @]
    /\ watcherFrame
    /\ UNCHANGED <<now, last_browser_restart, driver>>

\* check_login_status (browser_controller.py:123-159) as called at main.py:133.
\* Without a driver line 132 raises and line 157 returns False.
H_LoginCheck ==
    /\ hpc = "login_check"
    /\ \E r \in {"get_raises", "login_page", "inbox", "no_inbox"} :
         /\ driver = "none" => r = "get_raises"
         /\ r \in LoginResultsOn(lead.site)
         /\ is_logged_in' = CASE r = "get_raises" -> is_logged_in
                              [] r = "inbox"      -> TRUE
                              [] OTHER            -> FALSE
         /\ hpc' = IF r = "inbox" THEN "reaction_delay" ELSE "returned"
         /\ lead' = [lead EXCEPT
                       !.checks = @ + 1,
                       !.checkResult = IF r = "inbox" THEN "logged_in" ELSE "not_logged_in",
                       !.navs = IF driver = "live" THEN @ + 1 ELSE @,
                       !.outcome = IF r = "inbox" THEN @ ELSE "abort_login"]
    /\ watcherFrame
    /\ UNCHANGED <<now, last_browser_restart, driver>>

\* browser_controller.py:294: HumanBehavior.reaction_delay()
H_ReactionDelay ==
    /\ hpc = "reaction_delay"
    /\ hpc' = "navigate"
    /\ lead' = [lead EXCEPT !.delays = @ + 1]
    /\ watcherFrame
    /\ UNCHANGED browserVars

\* browser_controller.py:297, 161-165: navigate_to_inbox.  driver.get raises
\* when there is no driver and may raise on a live one.
H_Navigate ==
    /\ hpc = "navigate"
    /\ \E ok \in BOOLEAN :
         /\ driver = "none" => ~ok
         /\ LET l == [lead EXCEPT !.navs = IF driver = "live" THEN @ + 1 ELSE @]
            IN  IF ok
                THEN /\ hpc' = "find1"
                     /\ lead' = l
                ELSE ExceptionCaught(l)
    /\ watcherFrame
    /\ UNCHANGED browserVars

\* browser_controller.py:300: the first pass over the unread chain.
H_Find1 ==
    /\ hpc = "find1"
    /\ \E page \in PagesOf(selectors, lead.site), clickOk \in BOOLEAN :
         LET found == find_unread_conversation(page, clickOk)
         IN  /\ hpc' = IF found THEN "locate_input" ELSE "refresh"
             /\ lead' = [lead EXCEPT !.passes = @ + 1,
                                     !.pass1 = IF found THEN "found" ELSE "failed"]
    /\ watcherFrame
    /\ UNCHANGED browserVars

\* browser_controller.py:301-303: driver.refresh(), outside any try of
\* ThumbtackBrowser.handle_new_lead.
H_Refresh ==
    /\ hpc = "refresh"
    /\ \E ok \in BOOLEAN :
         LET l == [lead EXCEPT !.refreshes = @ + 1, !.refreshRaised = ~ok]
         IN  IF ok
             THEN /\ hpc' = "find2"
                  /\ lead' = l
             ELSE ExceptionCaught(l)
    /\ watcherFrame
    /\ UNCHANGED browserVars

\* The second pass with its result ignored: the reply goes ahead.
H_Find2_Proceed ==
    /\ hpc = "find2"
    /\ \E page \in PagesOf(selectors, lead.site), clickOk \in BOOLEAN :
         LET found == find_unread_conversation(page, clickOk)
         IN  /\ hpc' = "locate_input"
             /\ lead' = [lead EXCEPT !.passes = @ + 1,
                                     !.pass2 = IF found THEN "found" ELSE "failed"]
    /\ watcherFrame
    /\ UNCHANGED browserVars

\* The second pass refreshing and trying again when it fails.
H_Find2_RetryAgain ==
    /\ hpc = "find2"
    /\ \E page \in PagesOf(selectors, lead.site), clickOk \in BOOLEAN :
         LET found == find_unread_conversation(page, clickOk)
         IN  /\ hpc' = IF found THEN "locate_input" ELSE "refresh"
             /\ lead' = [lead EXCEPT !.passes = @ + 1,
                                     !.pass2 = IF found THEN "found" ELSE "failed"]
    /\ watcherFrame
    /\ UNCHANGED browserVars

\* browser_controller.py:305-307: the second pass; failure returns.
H_Find2 ==
    /\ hpc = "find2"
    /\ \E page \in PagesOf(selectors, lead.site), clickOk \in BOOLEAN :
         LET found == find_unread_conversation(page, clickOk)
         IN  /\ hpc' = IF found THEN "locate_input" ELSE "returned"
             /\ lead' = [lead EXCEPT !.passes = @ + 1,
                                     !.pass2 = IF found THEN "found" ELSE "failed",
                                     !.outcome = IF found THEN @ ELSE "abort_noconv"]
    /\ watcherFrame
    /\ UNCHANGED browserVars

\* browser_controller.py:316, 222-249: send_message locates the input field
\* and clicks it; no input, or an exception, returns False.
H_LocateInput ==
    /\ hpc = "locate_input"
    /\ \E page \in PagesOf(input_selectors, lead.site), clickOk \in BOOLEAN :
         LET found == Locate(input_selectors, page) # 0
         IN  /\ hpc' = IF found /\ clickOk THEN "type" ELSE "returned"
             /\ lead' = [lead EXCEPT !.inputTried = @ + 1,
                                     !.inputs = IF found THEN @ + 1 ELSE @,
                                     !.outcome = IF found /\ clickOk THEN @ ELSE "send_failed"]
    /\ watcherFrame
    /\ UNCHANGED browserVars

\* browser_controller.py:251-255: human_type; send_keys may raise (caught at 280).
H_Type ==
    /\ hpc = "type"
    /\ \E ok \in BOOLEAN :
         /\ hpc' = IF ok THEN "send" ELSE "returned"
         /\ lead' = [lead EXCEPT !.typed = @ + 1,
                                 !.outcome = IF ok THEN @ ELSE "send_failed"]
    /\ watcherFrame
    /\ UNCHANGED browserVars

\* send_selectors of send_message
send_selectors ==
    <<"button[type='submit']", "button[data-test='send-message']",
      "button[aria-label*='Send']", "button[aria-label*='send']">>

\* The send step giving up when no send button is found.
H_Send_NoFallback ==
    /\ hpc = "send"
    /\ \E page \in PagesOf(send_selectors, lead.site), ok \in BOOLEAN :
         LET j == Locate(send_selectors, page)
         IN  /\ hpc' = "returned"
             /\ lead' = [lead EXCEPT
                           !.sent = @ + 1,
                           !.sendPage = page,
                           !.clicked = j,
                           !.sendRaised = (j # 0 /\ ~ok),
                           !.outcome = IF j # 0 /\ ok THEN "done" ELSE "send_failed"]
    /\ watcherFrame
    /\ UNCHANGED browserVars

\* browser_controller.py:257-278: find_element for each send candidate in
\* turn (NoSuchElementException: next candidate); the first one found is
\* clicked and True returned.  With none found, Enter is pressed in the input
\* field and True returned.  A click or key press that raises is caught at
\* line 280 and gives False.
H_Send ==
    /\ hpc = "send"
    /\ \E page \in PagesOf(send_selectors, lead.site), ok \in BOOLEAN :
         LET j == Locate(send_selectors, page)
         IN  /\ hpc' = "returned"
             /\ lead' = [lead EXCEPT
                           !.sent = @ + 1,
                           !.sendPage = page,
                           !.clicked = j,
                           !.enter = (j = 0),
                           !.sendRaised = ~ok,
                           !.outcome = IF ok THEN "done" ELSE "send_failed"]
    /\ watcherFrame
    /\ UNCHANGED browserVars

\* --------------------------------------------------------- specification
Next ==
    \/ Arrive
    \/ Tick
    \/ InitValidate
    \/ InitBrowserStart
    \/ InitLoginCheck
    \/ InitLoginRecheck
    \/ InterruptAtStartup
    \/ BotConnect
    \/ MonitorStart
    \/ IdleWait
    \/ IdleTimeout
    \/ FetchSearch
    \/ FetchNext
    \/ Classify
    \/ CallbackInvoke
    \/ CallbackRaises
    \/ CallbackReturn
    \/ Flag
    \/ LoopEnd
    \/ ExceptSleep30
    \/ ExceptDisconnect
    \/ ExceptConnect
    \/ ExceptSleep60
    \/ InterruptInTry
    \/ InterruptOutsideTry
    \/ BreakDisconnect
    \/ ShutdownDisconnect
    \/ ShutdownBrowserStop
    \/ H_CheckRestart
    \/ H_RestartStop
    \/ H_RestartStart
    \/ H_LoginCheck
    \/ H_ReactionDelay
    \/ H_Navigate
    \/ H_Find1
    \/ H_Refresh
    \/ H_Find2
    \/ H_LocateInput
    \/ H_Type
    \/ H_Send

Spec == Init /\ [][Next]_vars

\* The classifier alone: one message of any kind is in the mailbox and the
\* loop body is about to classify it.
ClassifyInit ==
    /\ mpc = "classify"
    /\ obs = BootedObs
    /\ probe = NoProbe
    /\ connected = TRUE
    /\ \E k \in MailKinds : kind = [u \in Uids |-> IF u = 1 THEN k ELSE 0]
    /\ seen = {}
    /\ batch = <<>>
    /\ cur = 1
    /\ exitCode = -1
    /\ exitCause = "none"
    /\ loopEntered = FALSE
    /\ hpc = "idle"
    /\ now = 0
    /\ last_browser_restart = 0
    /\ driver = "live"
    /\ is_logged_in = TRUE
    /\ cbCount = [u \in Uids |-> 0]
    /\ clsCount = [u \in Uids |-> 0]
    /\ fetchedNow = {1}
    /\ cycleSeen = {}
    /\ activeHandlers = 0
    /\ recov = <<>>
    /\ slept = 0
    /\ failedReconnects = 0
    /\ lead = NoLead

ClassifyNext == Classify

SpecClassify == ClassifyInit /\ [][ClassifyNext]_vars

\* ------------------------------------------------ one selector chain alone
programVars ==
    <<mpc, connected, kind, seen, batch, cur, exitCode, exitCause, loopEntered,
      hpc, now, last_browser_restart, driver, is_logged_in,
      cbCount, clsCount, fetchedNow, cycleSeen, activeHandlers,
      recov, slept, failedReconnects, lead, obs>>

\* The program at rest while one call is studied: a started, logged-in bot
\* with an empty mailbox.
ProbeBase ==
    /\ mpc = "in_callback"
    /\ obs = BootedObs
    /\ connected = TRUE
    /\ kind = [u \in Uids |-> 0]
    /\ seen = {}
    /\ batch = <<>>
    /\ cur = 0
    /\ exitCode = -1
    /\ exitCause = "none"
    /\ loopEntered = TRUE
    /\ hpc = "idle"
    /\ now = 0
    /\ last_browser_restart = 0
    /\ driver = "live"
    /\ is_logged_in = TRUE
    /\ cbCount = [u \in Uids |-> 0]
    /\ clsCount = [u \in Uids |-> 0]
    /\ fetchedNow = {}
    /\ cycleSeen = {}
    /\ activeHandlers = 0
    /\ recov = <<>>
    /\ slept = 0
    /\ failedReconnects = 0
    /\ lead = NoLead

\* The two chains resolved by a for loop with one wait per candidate.
Chain(c) == IF c = "unread" THEN selectors ELSE input_selectors

\* A chain is about to be resolved on a page on which any set of its
\* candidates matches an element.
LocateInit ==
    /\ ProbeBase
    /\ \E c \in {"unread", "input"}, page \in SUBSET Range(selectors \o input_selectors) :
         /\ page \subseteq Range(Chain(c))
         /\ probe = [op |-> "locate", chain |-> c, page |-> page, i |-> 1,
                     queried |-> <<>>, found |-> 0, done |-> FALSE]

\* The loop without return / break on a match: it goes on to the next
\* candidate and the last match wins.
LocateQuery_NoBreak ==
    /\ probe.op = "locate"
    /\ ~probe.done
    /\ probe.i <= Len(Chain(probe.chain))
    /\ LET s == Chain(probe.chain)[probe.i]
       IN  probe' = [probe EXCEPT
                       !.queried = Append(@, s),
                       !.found = IF s \in probe.page THEN probe.i ELSE @,
                       !.i = @ + 1]
    /\ UNCHANGED programVars

\* browser_controller.py:184-203 and 233-241: one pass of the for loop.  The
\* wait for the candidate either finds an element (return True at 199, break
\* at 239) or times out (continue).
LocateQuery ==
    /\ probe.op = "locate"
    /\ ~probe.done
    /\ probe.i <= Len(Chain(probe.chain))
    /\ LET s == Chain(probe.chain)[probe.i]
       IN  probe' = IF s \in probe.page
                    THEN [probe EXCEPT !.queried = Append(@, s),
                                       !.found = probe.i, !.done = TRUE]
                    ELSE [probe EXCEPT !.queried = Append(@, s), !.i = @ + 1]
    /\ UNCHANGED programVars

\* browser_controller.py:205-206 and 243-245: the loop ran out of candidates.
LocateExhausted ==
    /\ probe.op = "locate"
    /\ ~probe.done
    /\ probe.i > Len(Chain(probe.chain))
    /\ probe' = [probe EXCEPT !.done = TRUE]
    /\ UNCHANGED programVars

LocateNext ==
    \/ LocateQuery
    \/ LocateExhausted

SpecLocate == LocateInit /\ [][LocateNext]_vars

\* ----------------------------------------------------- human_type alone
\* browser_controller.py:313: the message typed into the conversation.
message ==
    <<"H", "i", "!", " ", "T", "h", "a", "n", "k", "s", " ", "f", "o", "r",
      " ", "r", "e", "a", "c", "h", "i", "n", "g", " ", "o", "u", "t", ".",
      " ", "I", "'", "m", " ", "a", "v", "a", "i", "l", "a", "b", "l", "e",
      " ", "f", "o", "r", " ", "t", "h", "i", "s", " ", "p", "r", "o", "j",
      "e", "c", "t", ".", " ", "C", "o", "u", "l", "d", " ", "y", "o", "u",
      " ", "s", "h", "a", "r", "e", " ", "m", "o", "r", "e", " ", "d", "e",
      "t", "a", "i", "l", "s", " ", "a", "b", "o", "u", "t", " ", "w", "h",
      "a", "t", " ", "y", "o", "u", " ", "n", "e", "e", "d", "?">>

\* browser_controller.py:53: the bounds of random.randint for the pause test.
THINK_EVERY_MIN == 15
THINK_EVERY_MAX == 30

\* human_type(element, message) is about to run: nothing sent yet.  i is the
\* index of the next character, lastPause / prevPause the numbers of
\* characters typed when the last two thinking pauses were made (0: none).
TypeInit ==
    /\ ProbeBase
    /\ probe = [op |-> "type", text |-> message, i |-> 0, sent |-> <<>>,
                delays |-> 0, lastPause |-> 0, prevPause |-> 0, done |-> FALSE]

\* browser_controller.py:48-54: one pass of the loop.  The character is sent,
\* one typing delay slept, and a fresh n = random.randint(15, 30) decides on a
\* thinking pause: i > 0 and i % n == 0.
TypeChar ==
    /\ probe.op = "type"
    /\ probe.i < Len(probe.text)
    /\ \E n \in THINK_EVERY_MIN..THINK_EVERY_MAX :
         LET i     == probe.i
             pause == i > 0 /\ i % n = 0
         IN  probe' = [probe EXCEPT
                         !.sent = Append(@, probe.text[i + 1]),
                         !.delays = @ + 1,
                         !.lastPause = IF pause THEN i + 1 ELSE @,
                         !.prevPause = IF pause THEN probe.lastPause ELSE @,
                         !.i = i + 1]
    /\ UNCHANGED programVars

\* browser_controller.py:56: the loop is over.
TypeDone ==
    /\ probe.op = "type"
    /\ ~probe.done
    /\ probe.i = Len(probe.text)
    /\ probe' = [probe EXCEPT !.done = TRUE]
    /\ UNCHANGED programVars

TypeNext ==
    \/ TypeChar
    \/ TypeDone

SpecType == TypeInit /\ [][TypeNext]_vars

\* ------------------------------------------------- the sampled delays alone
\* random.uniform(a, b) returns a value of [a, b]: both ends and the middle.
Uniform(a, b) == {a, (a + b) \div 2, b}

\* browser_controller.py:29: reaction_delay sleeps random.uniform(30, 50) s.
reaction_delay == Uniform(30, 50)

\* browser_controller.py:36: typing_delay returns random.uniform(0.04, 0.15) s,
\* here in milliseconds.
typing_delay == Uniform(40, 150)

\* config.py:42-47: the four settings are read from the environment, with the
\* defaults 30, 50, 0.04 and 0.15.  Values a deployment may set (typing speeds
\* in milliseconds): the defaults, and ranges below, above and inside them.
EnvReaction == {<<30, 50>>, <<10, 20>>, <<60, 90>>, <<35, 45>>}
EnvTyping   == {<<40, 150>>, <<10, 30>>, <<200, 400>>, <<60, 100>>}

Config(r, t) ==
    [REACTION_TIME_MIN |-> r[1], REACTION_TIME_MAX |-> r[2],
     TYPING_SPEED_MIN |-> t[1], TYPING_SPEED_MAX |-> t[2]]

\* The process runs with some configuration; no delay sampled yet (-1).
DelayInit ==
    /\ ProbeBase
    /\ \E r \in EnvReaction, t \in EnvTyping :
         probe = [op |-> "delay", cfg |-> Config(r, t),
                  reaction |-> -1, typing |-> -1]

\* browser_controller.py:26-31: HumanBehavior.reaction_delay()
ReactionDelay ==
    /\ probe.op = "delay"
    /\ \E d \in reaction_delay : probe' = [probe EXCEPT !.reaction = d]
    /\ UNCHANGED programVars

\* browser_controller.py:33-36: HumanBehavior.typing_delay()
TypingDelay ==
    /\ probe.op = "delay"
    /\ \E d \in typing_delay : probe' = [probe EXCEPT !.typing = d]
    /\ UNCHANGED programVars

DelayNext ==
    \/ ReactionDelay
    \/ TypingDelay

SpecDelay == DelayInit /\ [][DelayNext]_vars

\* ------------------------------------------- the watch loop on a backlog
\* One message more than a fetch returns.
BacklogUids == 1..(FETCH_LIMIT + 1)

\* The watcher is about to wait on a mailbox that holds unread messages, each
\* a lead or not: mail that came in while the bot was down, or while one
\* lead was being answered.
BacklogInit ==
    /\ mpc = "idle_wait"
    /\ obs = BootedObs
    /\ probe = NoProbe
    /\ connected = TRUE
    /\ kind \in [BacklogUids -> ArrivalKinds]
    /\ seen = {}
    /\ batch = <<>>
    /\ cur = 0
    /\ exitCode = -1
    /\ exitCause = "none"
    /\ loopEntered = TRUE
    /\ hpc = "idle"
    /\ now = 0
    /\ last_browser_restart = 0
    /\ driver = "live"
    /\ is_logged_in = TRUE
    /\ cbCount = [u \in BacklogUids |-> 0]
    /\ clsCount = [u \in BacklogUids |-> 0]
    /\ fetchedNow = {}
    /\ cycleSeen = {}
    /\ activeHandlers = 0
    /\ recov = <<>>
    /\ slept = 0
    /\ failedReconnects = 0
    /\ lead = NoLead

\* The steps of the watch loop when every wake brings responses and no
\* mailbox command fails.
WakeWithResponses == IdleWait /\ mpc' = "fetch_search"
FetchSearchOk     == FetchSearch /\ mpc' = "fetch_next"
FetchNextOk       == FetchNext /\ mpc' \in {"classify", "loop_end"}
FlagOk            == Flag /\ mpc' = "fetch_next"

BacklogNext ==
    \/ WakeWithResponses
    \/ FetchSearchOk
    \/ FetchNextOk
    \/ Classify
    \/ CallbackInvoke
    \/ CallbackRaises
    \/ CallbackReturn
    \/ FlagOk
    \/ LoopEnd
    \/ H_CheckRestart
    \/ H_ReactionDelay
    \/ H_Navigate
    \/ H_Find1
    \/ H_Refresh
    \/ H_Find2
    \/ H_LocateInput
    \/ H_Type
    \/ H_Send

\* The program is sequential and every call of the loop and of the handler
\* returns: a step that can be taken is taken.
SpecBacklog == BacklogInit /\ [][BacklogNext]_vars /\ WF_vars(BacklogNext)

\* ================================================================ claims

\* C1: across wakes, handler outcomes, transport errors (a failing
\* mark-as-read call included) and reconnects, the callback is invoked at
\* most once for any message uid.
C1_CallbackAtMostOncePerUid ==
    \A u \in Uids : cbCount[u] <= 1

\* C2: when a wake's fetch/classify cycle completes without a transport
\* error, every message fetched in it, qualifying or not, carries the read
\* flag, no message is classified in two wake cycles, and messages that were
\* not fetched keep their flag.
C2_FetchedAreMarkedRead ==
    /\ mpc = "loop_end" =>
         /\ fetchedNow \subseteq seen
         /\ \A u \in Delivered \ fetchedNow : (u \in seen) <=> (u \in cycleSeen)
    /\ \A u \in Uids : clsCount[u] <= 1

\* Two characters are the same letter up to case.
SameLetter(a, b) ==
    \/ a = b
    \/ \E k \in 1..Len(UpperChars) :
         {a, b} = {UpperChars[k], LowerChars[k]}

\* hay contains needle at some position, letters compared up to case.
ContainsIgnoringCase(hay, needle) ==
    \E i \in 1..Len(hay) :
        /\ i + Len(needle) - 1 <= Len(hay)
        /\ \A j \in 1..Len(needle) : SameLetter(hay[i + j - 1], needle[j])

Qualifies(msg) ==
    /\ msg.from_ # None
    /\ ContainsIgnoringCase(msg.from_, THUMBTACK_DOMAIN)
    /\ msg.subject # None
    /\ \E k \in 1..Len(lead_keywords) :
         ContainsIgnoringCase(msg.subject, lead_keywords[k])

Classified == cur # 0 /\ mpc \in {"callback", "fetch_next"} /\ clsCount[cur] > 0

\* C3: is_thumbtack_lead is true exactly when the sender contains
\* "thumbtack.com" up to case and the subject contains one of the four
\* keywords up to case; a missing or empty subject gives false.
C3_ClassifierIff ==
    Classified =>
        /\ (mpc = "callback") <=> Qualifies(Msg(cur))
        /\ Msg(cur).subject \in {None, <<>>} => mpc = "fetch_next"

\* C3 witness: an upper-case sender with a mixed-case keyword was classified
\* as a lead.
C3_Witness ==
    /\ Classified
    /\ mpc = "callback"
    /\ Msg(cur).from_ = SampleSenders[3]
    /\ Msg(cur).subject = SampleSubjects[5]

\* Positions of the callback after the restart test and the restart itself.
PastRestart ==
    hpc \in {"login_check", "reaction_delay", "navigate", "find1", "refresh",
             "find2", "locate_input", "type", "send", "returned"}

\* C4 as claimed: elapsed >= interval at lead arrival gives exactly one
\* restart, before any navigation; elapsed < interval gives none.
C4_RestartAtOrAboveInterval ==
    PastRestart =>
        /\ lead.elapsed >= BROWSER_RESTART_INTERVAL =>
             lead.restarts = 1 /\ ~lead.restartAfterNav
        /\ lead.elapsed < BROWSER_RESTART_INTERVAL => lead.restarts = 0

\* C4 amended: elapsed > interval at lead arrival gives exactly one restart,
\* before any navigation for the lead; elapsed <= interval gives none.
C4_RestartAboveInterval ==
    PastRestart =>
        /\ lead.elapsed > BROWSER_RESTART_INTERVAL =>
             lead.restarts = 1 /\ ~lead.restartAfterNav
        /\ lead.elapsed <= BROWSER_RESTART_INTERVAL => lead.restarts = 0

\* C4 witness: a lead that arrived one second past the interval has been
\* navigated for after its single restart.
C4_Witness ==
    /\ hpc = "find1"
    /\ lead.elapsed = BROWSER_RESTART_INTERVAL + 1
    /\ lead.restarts = 1
    /\ lead.navs > 0

\* C5 as claimed: a transport error is followed by disconnect, then the
\* delay, then the reconnect attempt; the delay before the first attempt is
\* 30 s and before every later attempt of a run of failures 60 s.
C5_DelaysAsClaimed ==
    mpc = "except_connect" =>
        /\ recov = <<"disconnect", "sleep30">>
        /\ failedReconnects = 0 => slept = RECONNECT_DELAY
        /\ failedReconnects >= 1 => slept = RECONNECT_FAIL_DELAY

\* C5 amended: a transport error is followed by the 30 s delay, then
\* disconnect, then the reconnect attempt; the first attempt comes 30 s after
\* the error, every later attempt of a run of failures 90 s after the failed
\* one (60 s, the failing wait, 30 s).
C5_ReconnectTiming ==
    mpc = "except_connect" =>
        /\ recov = <<"sleep30", "disconnect">>
        /\ failedReconnects = 0 => slept = RECONNECT_DELAY
        /\ failedReconnects >= 1 => slept = RECONNECT_FAIL_DELAY + RECONNECT_DELAY

\* C5 witness: the third consecutive reconnect attempt is about to be made.
C5_Witness ==
    /\ mpc = "except_connect"
    /\ failedReconnects >= 2
    /\ slept = RECONNECT_FAIL_DELAY + RECONNECT_DELAY

\* C6 as claimed: a bot that has started only ever stops because of an
\* interrupt.
C6_OnlyInterruptStops ==
    mpc \in {"shutdown", "shutdown_browser", "break_disconnect", "exited"}
        /\ obs.login = "ok"
        => exitCause \in {"interrupt", "interrupt_unhandled"}

\* The watcher's own steps from the except branch and from the wait.
RetryStep ==
    \/ ExceptSleep30 \/ ExceptDisconnect \/ ExceptConnect \/ ExceptSleep60
    \/ IdleWait

\* C6 amended: once the watch loop is entered it is left only by an
\* interrupt, whatever fails (wait, fetch, flag, any number of reconnects), and
\* after a failure the watcher always has a retry step; only a failure of
\* the first connect or of the folder selection ends a started bot, with exit
\* code 1.
C6_LoopLeftOnlyByInterrupt ==
    /\ mpc \in LoopStates => loopEntered /\ exitCode = -1
    /\ mpc \in ExceptStates \cup {"idle_wait"} => ENABLED RetryStep
    /\ loopEntered /\ mpc \notin LoopStates =>
         exitCause = "interrupt" /\ exitCode \in {-1, 0}
    /\ exitCode = 1 /\ obs.login = "ok" =>
         ~loopEntered /\ exitCause \in {"connect_failed", "folder_failed"}

\* C6 witness: the watcher is back in the wait after the maximum counted
\* number of consecutive failed reconnects, still running.
C6_Witness ==
    /\ mpc = "idle_wait"
    /\ failedReconnects = CountCap
    /\ loopEntered
    /\ exitCode = -1

\* A step in which the lead handler raises: the exception leaves the callable
\* (caught at email_monitor.py:112) or is raised inside the try of
\* ThumbtackBot.handle_new_lead (caught at main.py:140).
HandlerRaises ==
    \/ /\ mpc = "in_callback" /\ hpc = "check_restart"
       /\ hpc' = "idle" /\ exitCause' = exitCause
    \/ /\ lead.outcome = "running" /\ lead'.outcome = "exception"

\* The callback returning to the watcher after a caught exception.
ReturnsAfterException ==
    /\ hpc = "returned" /\ lead.outcome = "exception"
    /\ hpc' = "idle" /\ exitCause' = exitCause

WatcherUntouched ==
    /\ connected' = connected
    /\ batch' = batch
    /\ cur' = cur
    /\ seen' = seen
    /\ recov' = recov
    /\ slept' = slept
    /\ failedReconnects' = failedReconnects
    /\ exitCode' = -1

C7_Step ==
    /\ HandlerRaises => (mpc' \in {"in_callback", "flag"} /\ WatcherUntouched)
    /\ ReturnsAfterException => (mpc' = "flag" /\ WatcherUntouched)

\* C7: an exception raised by the lead handler is caught; the watch loop goes
\* on to the mark-as-read call with the rest of the batch intact, and the
\* mailbox connection is neither torn down nor reconnected by it.
C7_HandlerExceptionContained == [][C7_Step]_vars

\* C7 witness: a handler exception was caught while another message of the
\* batch is still to be processed on a connected mailbox.
C7_Witness ==
    /\ hpc = "returned"
    /\ lead.outcome = "exception"
    /\ mpc = "in_callback"
    /\ batch # <<>>
    /\ connected

\* C8: lead handling is serialized: at most one handler is running, it runs
\* only while the watcher is inside the callback call, and the wait is never
\* issued while a handler runs.
C8_Serialized ==
    /\ activeHandlers <= 1
    /\ activeHandlers = IF hpc = "idle" THEN 0 ELSE 1
    /\ hpc # "idle" => mpc = "in_callback"
    /\ mpc \in {"idle_wait", "callback"} => hpc = "idle"

\* C8 witness: a handler is running for one lead while a second unread lead
\* is already in the mailbox.
C8_Witness ==
    /\ hpc = "reaction_delay"
    /\ \E u \in Unread : u # cur /\ is_thumbtack_lead(Msg(u))

\* C9 as claimed: a failed first pass is followed by exactly one refresh and
\* exactly one more pass; a failed second pass aborts the lead with nothing
\* located, typed or sent; never more than two passes or one refresh.
C9_RefreshThenSecondPass ==
    /\ lead.passes <= 2 /\ lead.refreshes <= 1
    /\ hpc = "returned" /\ lead.pass1 = "failed" =>
         lead.refreshes = 1 /\ lead.passes = 2
    /\ lead.pass2 = "failed" =>
         /\ hpc = "returned" /\ lead.outcome = "abort_noconv"
         /\ lead.inputs = 0 /\ lead.typed = 0 /\ lead.sent = 0

\* C9 amended: a failed first pass is followed by exactly one refresh; if the
\* refresh completes the chain is tried exactly once more, and if it raises
\* the lead ends there through the handler's exception branch.  A failed
\* second pass aborts the lead with nothing located, typed or sent and the
\* handler returns; never more than two passes or one refresh.
C9_RefreshOnceRetryOnce ==
    /\ lead.passes <= 2 /\ lead.refreshes <= 1
    /\ lead.passes = 2 =>
         lead.pass1 = "failed" /\ lead.refreshes = 1 /\ ~lead.refreshRaised
    /\ hpc = "returned" /\ lead.pass1 = "failed" =>
         /\ lead.refreshes = 1
         /\ lead.passes = IF lead.refreshRaised THEN 1 ELSE 2
         /\ lead.refreshRaised =>
              /\ lead.outcome = "exception"
              /\ lead.inputs = 0 /\ lead.typed = 0 /\ lead.sent = 0
    /\ lead.pass2 = "failed" =>
         /\ hpc = "returned" /\ lead.outcome = "abort_noconv"
         /\ mpc = "in_callback"
         /\ lead.inputs = 0 /\ lead.typed = 0 /\ lead.sent = 0

\* C9 witness: both passes failed and the lead was aborted after one refresh.
C9_Witness ==
    /\ hpc = "returned"
    /\ lead.pass1 = "failed" /\ lead.pass2 = "failed"
    /\ lead.refreshes = 1 /\ lead.passes = 2

\* C10: a scheduled restart is followed by one login re-check before the
\* lead is handled; when the re-check reports not-logged-in the lead is
\* abandoned: no reaction delay, no conversation location, no typing, no send,
\* and no second attempt in that handling.
C10_LoginLostAbandonsLead ==
    /\ lead.restarts >= 1 /\ (lead.delays > 0 \/ hpc = "returned") =>
         lead.checks = 1
    /\ lead.restarts = 0 => lead.checks = 0
    /\ lead.delays > 0 /\ lead.restarts >= 1 => lead.checkResult = "logged_in"
    /\ lead.checkResult = "not_logged_in" =>
         /\ hpc = "returned" /\ lead.outcome = "abort_login"
         /\ lead.restarts = 1 /\ lead.checks = 1
         /\ lead.delays = 0 /\ lead.passes = 0 /\ lead.refreshes = 0
         /\ lead.inputs = 0 /\ lead.typed = 0 /\ lead.sent = 0

\* C10 witness: the re-check after a restart of a live browser reported
\* not-logged-in and the handler has returned.
C10_Witness ==
    /\ hpc = "returned"
    /\ lead.outcome = "abort_login"
    /\ lead.restarts = 1
    /\ driver = "live"
    /\ ~is_logged_in


\* C11: a selector chain is resolved first-match-wins in list order.  When
\* only the j-th candidate is present, exactly candidates 1..j are queried
\* and the j-th is returned; when none is present all are queried and nothing
\* is returned.  In general the result is the first present candidate and the
\* candidates queried are exactly those up to it; this is also what the
\* operator Locate used by the lead handler computes.  Holds for the
\* unread-conversation chain and the message-input chain.
C11_FirstMatchWins ==
    (probe.op = "locate" /\ probe.done) =>
        LET chain == Chain(probe.chain)
            k     == Len(chain)
        IN  /\ \A j \in 1..k :
                 probe.page = {chain[j]} =>
                     probe.found = j /\ probe.queried = SubSeq(chain, 1, j)
            /\ probe.page = {} => probe.found = 0 /\ probe.queried = chain
            /\ probe.found # 0 =>
                 /\ chain[probe.found] \in probe.page
                 /\ \A j \in 1..(probe.found - 1) : chain[j] \notin probe.page
                 /\ probe.queried = SubSeq(chain, 1, probe.found)
            /\ probe.found = 0 => probe.page = {} /\ probe.queried = chain
            /\ probe.found = Locate(chain, probe.page)

\* C11 witness: on the input chain only the fourth candidate is present; the
\* loop has finished after querying four candidates.
C11_Witness ==
    /\ probe.op = "locate"
    /\ probe.done
    /\ probe.chain = "input"
    /\ probe.page = {input_selectors[4]}
    /\ probe.found = 4
    /\ Len(probe.queried) = 4


\* The first candidate of a chain, in list order, that is present on a page
\* (0 when none is).
FirstPresent(chain, page) ==
    IF \E j \in 1..Len(chain) : chain[j] \in page
    THEN CHOOSE j \in 1..Len(chain) :
           /\ chain[j] \in page
           /\ \A h \in 1..(j - 1) : chain[h] \notin page
    ELSE 0

\* C12 as stated: once the input was found and the text typed, with no send
\* candidate present the message is sent by a key press on the input element
\* and the outcome is success; with a send candidate present the first
\* present one is clicked and the key press is not used.  If no candidate of
\* the input chain resolves, send_message fails without typing or sending.
C12_SendAsClaimed ==
    /\ (lead.sent = 1 /\ lead.sendPage = {}) =>
           lead.enter /\ lead.clicked = 0 /\ lead.outcome = "done"
    /\ (lead.sent = 1 /\ lead.sendPage # {}) =>
           lead.clicked = FirstPresent(send_selectors, lead.sendPage) /\ ~lead.enter
    /\ (lead.inputTried = 1 /\ lead.inputs = 0) =>
           /\ hpc = "returned"
           /\ lead.outcome = "send_failed"
           /\ lead.typed = 0
           /\ lead.sent = 0

\* C12 amended: as stated, except that the outcome of the send step is
\* success only if the click or the key press does not raise; when it raises
\* send_message fails (the key press is still the only send action used when
\* no send candidate is present).
C12_SendUnlessRaises ==
    /\ (lead.sent = 1 /\ lead.sendPage = {}) =>
           /\ lead.enter /\ lead.clicked = 0
           /\ lead.outcome = IF lead.sendRaised THEN "send_failed" ELSE "done"
    /\ (lead.sent = 1 /\ lead.sendPage # {}) =>
           /\ lead.clicked = FirstPresent(send_selectors, lead.sendPage)
           /\ ~lead.enter
           /\ lead.outcome = IF lead.sendRaised THEN "send_failed" ELSE "done"
    /\ lead.sent = 1 => lead.typed = 1 /\ lead.inputs = 1
    /\ (lead.inputTried = 1 /\ lead.inputs = 0) =>
           /\ hpc = "returned"
           /\ lead.outcome = "send_failed"
           /\ lead.typed = 0
           /\ lead.sent = 0

\* C12 witness: the text was typed, no send candidate was present, Enter was
\* pressed and the lead is done.
C12_Witness ==
    /\ hpc = "returned"
    /\ lead.typed = 1
    /\ lead.sent = 1
    /\ lead.sendPage = {}
    /\ lead.enter
    /\ lead.outcome = "done"


\* C13: on every path by which an interrupt stops the running bot, shutdown
\* releases the mailbox connection first and then stops the browser session,
\* both before the process exits: the browser is stopped only after the
\* mailbox is released, and a process ended by an interrupt has neither a
\* mailbox connection nor a browser session.
C13_ShutdownOnInterrupt ==
    /\ mpc = "shutdown_browser" => ~connected
    /\ (mpc = "exited" /\ exitCause = "interrupt") =>
           ~connected /\ driver = "none"


\* C14: the process exit code is non-zero (1) when a required credential is
\* missing, and then neither the browser nor the mailbox connection was
\* started; when the initial browser start fails; and when the initial login
\* state cannot be established (both checks, 300 s apart, fail).  It is zero
\* when the bot is shut down by a caught interrupt.
C14_ExitCodes ==
    /\ obs.creds = "missing" =>
           /\ mpc = "exited" /\ exitCode = 1
           /\ obs.browser = "unknown" /\ driver = "none"
           /\ ~connected
    /\ obs.browser = "failed" => mpc = "exited" /\ exitCode = 1
    /\ obs.login = "failed" => mpc = "exited" /\ exitCode = 1
    /\ (mpc = "exited" /\ exitCause = "interrupt") => exitCode = 0

\* C14 witness: a credential was missing and the process has exited with
\* code 1 before starting anything.
C14_Witness ==
    /\ obs.creds = "missing"
    /\ mpc = "exited"
    /\ exitCode = 1
    /\ driver = "none"


\* A step taken by the wait as it returns on timeout expiry, or taken while
\* the loop is in the branch that follows such a return.
AfterTimeout == obs'.wait = "timeout" \/ obs.wait = "timeout"

C15_Step ==
    /\ AfterTimeout =>
           /\ mpc' \in {"idle_timeout", "idle_wait", "break_disconnect"}
           /\ batch' = <<>> /\ cur' = cur /\ fetchedNow' = {}
           /\ seen' = seen
           /\ cbCount' = cbCount /\ clsCount' = clsCount
           /\ hpc' = "idle"
    /\ (mpc = "idle_timeout" /\ mpc' # mpc /\ exitCause' = exitCause) =>
           mpc' = "idle_wait"

\* C15: when the wait returns because of timeout expiry with an empty
\* response, the loop goes round to the next wait without fetching any
\* message, without changing any read flag and without invoking the handler
\* (unless an interrupt ends the loop first).
C15_TimeoutOnlyRewaits == [][C15_Step]_vars

\* C15 witness: the wait has just returned on timeout while an unread lead is
\* in the mailbox; nothing was fetched.
C15_Witness ==
    /\ mpc = "idle_timeout"
    /\ obs.wait = "timeout"
    /\ \E u \in Unread : is_thumbtack_lead(Msg(u))
    /\ fetchedNow = {}


\* C16: typing a message of length L, human_type sends each character once in
\* order and inserts exactly L keystroke delays; no thinking pause occurs
\* before 15 characters have been typed, consecutive thinking pauses are at
\* least 15 and at most 30 typed characters apart, and never more than 30
\* characters are typed without a thinking pause.
C16_TypingAsClaimed ==
    probe.op = "type" =>
        /\ probe.sent = SubSeq(probe.text, 1, probe.i)
        /\ probe.delays = probe.i
        /\ probe.done => probe.sent = probe.text /\ probe.delays = Len(probe.text)
        /\ probe.lastPause # 0 => probe.lastPause >= THINK_EVERY_MIN
        /\ probe.prevPause # 0 =>
               /\ probe.lastPause - probe.prevPause >= THINK_EVERY_MIN
               /\ probe.lastPause - probe.prevPause <= THINK_EVERY_MAX
        /\ probe.i - probe.lastPause <= THINK_EVERY_MAX


\* The step in which an interrupt makes the watch loop stop.
LoopStopsOnInterrupt ==
    mpc # "break_disconnect" /\ mpc' = "break_disconnect"

\* C17: an interrupt is honored only at a loop-iteration boundary: the watch
\* loop never stops while a lead handler is in flight, nor between the return
\* of the handler and the mark-as-read call for its message.
C17_InterruptAtBoundary ==
    [][LoopStopsOnInterrupt => (hpc = "idle" /\ mpc \notin {"in_callback", "flag"})]_vars


\* C18: for every lead that is handled exactly one reaction delay is applied
\* (a lead past the delay has had one, and none ever has two), and the browser
\* navigates nowhere, the login check after a restart included, between the
\* detection of the lead and the end of that delay.
C18_DelayBeforeAnyNavigation ==
    /\ lead.delays <= 1
    /\ hpc \in {"navigate", "find1", "refresh", "find2", "locate_input",
                "type", "send"} => lead.delays = 1
    /\ lead.delays = 0 => lead.navs = 0


C20_FailedRestartAbandonsLead ==
    lead.start = "no_driver" =>
        /\ hpc \in {"login_check", "returned"}
        /\ driver = "none"
        /\ lead.delays = 0 /\ lead.passes = 0
        /\ lead.inputTried = 0 /\ lead.typed = 0 /\ lead.sent = 0
        /\ hpc = "returned" =>
               /\ lead.outcome = "abort_login"
               /\ ENABLED CallbackReturn
        /\ mpc = "in_callback"
        /\ exitCode = -1

\* C20 witness: the restart found the interval exceeded, the browser did not
\* come up, and the handler has returned with the lead abandoned.
C20_Witness ==
    /\ lead.start = "no_driver"
    /\ lead.restarts = 1
    /\ hpc = "returned"
    /\ lead.outcome = "abort_login"
    /\ lead.delays = 0
    /\ mpc = "in_callback"
    /\ exitCode = -1


\* C21: at most one browser session is open at any time: the handle is held
\* exactly when one session is open, start() is entered (in initialize and in
\* restart) only with no handle held and no session open, and restart's
\* stop() has released and cleared the previous handle, also when quit()
\* raised, before its start().
C21_AtMostOneSession ==
    /\ obs.sessions \in {0, 1}
    /\ (driver = "live") <=> (obs.sessions = 1)
    /\ mpc = "init_browser" => driver = "none" /\ obs.sessions = 0
    /\ hpc = "restart_start" => driver = "none" /\ obs.sessions = 0

\* C21 witness: a scheduled restart stopped the running session and started
\* a new one, which is the only one open.
C21_Witness ==
    /\ hpc = "login_check"
    /\ lead.restarts = 1
    /\ lead.start = "ok"
    /\ driver = "live"
    /\ obs.sessions = 1


\* C22: every sampled delay lies within the configured bounds, whatever the
\* configuration: the reaction delay within [REACTION_TIME_MIN,
\* REACTION_TIME_MAX] and each keystroke delay within [TYPING_SPEED_MIN,
\* TYPING_SPEED_MAX].
C22_DelaysWithinConfig ==
    probe.op = "delay" =>
        /\ probe.reaction # -1 =>
               /\ probe.cfg.REACTION_TIME_MIN <= probe.reaction
               /\ probe.reaction <= probe.cfg.REACTION_TIME_MAX
        /\ probe.typing # -1 =>
               /\ probe.cfg.TYPING_SPEED_MIN <= probe.typing
               /\ probe.typing <= probe.cfg.TYPING_SPEED_MAX


\* C23: with wakes that bring responses recurring and no transport error,
\* every qualifying message that is unread in the mailbox is eventually
\* passed to the handler; the 5-message newest-first batch never hides an
\* unread lead for good behind newer unread messages that are not leads.
\* On a mailbox holding a backlog of unread messages: eventually every
\* qualifying message of the backlog has been passed to the handler.
C23_EveryUnreadLeadHandled ==
    <>(\A u \in BacklogUids : is_thumbtack_lead(Msg(u)) => cbCount[u] > 0)


\* C24: whenever lead handling is at a browser action of
\* ThumbtackBrowser.handle_new_lead (the navigation to the inbox, the
\* refresh, a pass over a selector chain), a live browser handle exists, also
\* for leads that arrive after a scheduled restart whose start failed.
C24_HandleAtBrowserAction ==
    hpc \in {"navigate", "find1", "refresh", "find2", "locate_input"} =>
        driver = "live"

====
